---- MODULE Spec2Model ----
(***************************************************************************)
(* trivymultiscanner: per-package SPDX SBOM generation, sanitising,        *)
(* dependency mapping and merging (src/app.py, src/main.py, src/app_n.py,  *)
(* src/app_p.py).                                                          *)
(*                                                                         *)
(* Python strings are sequences of one-character strings, so that          *)
(* substring search, startswith and endswith are computed.  A JSON         *)
(* document is a record; the output directory is a function from the file  *)
(* names present to their documents.                                       *)
(***************************************************************************)
EXTENDS Integers, Sequences, FiniteSets, TLC

VARIABLES
    variant,   \* the program run: "app", "main", "app_n" or "app_p"
    fs,        \* output directory: file name -> JSON document on disk
    pc,        \* position of the operation sequence being run
    runs,      \* number of calls of the operation made so far
    hist,      \* documents observed: the input, then the result of each call
    arg        \* the operation's inputs that are not files of the directory

vars == <<variant, fs, pc, runs, hist, arg>>

-----------------------------------------------------------------------------
(* Python string primitives                                                *)

\* str.find(sub) >= 0  /  sub in s
Contains(s, sub) ==
    \E i \in 0..(Len(s) - Len(sub)) : SubSeq(s, i + 1, i + Len(sub)) = sub

\* str.find(sub): lowest index (0-based) of sub in s, -1 when absent
Find(s, sub) ==
    IF Contains(s, sub)
    THEN CHOOSE i \in 0..(Len(s) - Len(sub)) :
            /\ SubSeq(s, i + 1, i + Len(sub)) = sub
            /\ \A j \in 0..(i - 1) : SubSeq(s, j + 1, j + Len(sub)) # sub
    ELSE -1

StartsWith(s, p) == Len(s) >= Len(p) /\ SubSeq(s, 1, Len(p)) = p

EndsWith(s, p) == Len(s) >= Len(p) /\ SubSeq(s, Len(s) - Len(p) + 1, Len(s)) = p

\* dict.get(key) of a missing key; str(None) is the text "None"
None == <<"None">>

\* x or ""
OrEmpty(x) == IF x = None \/ x = <<>> THEN <<>> ELSE x

\* truthiness of a string-or-None value
Truthy(x) == x # None /\ x # <<>>

\* the image of a sequence, and [f(x) for x in s]
Range(s) == {s[i] : i \in 1..Len(s)}

-----------------------------------------------------------------------------
(* String literals of the source                                           *)

PIPFILE_LOCK == <<"P","i","p","f","i","l","e",".","l","o","c","k">>

\* package names a scanner document may carry
NameFlask == <<"f","l","a","s","k">>
NameLockPath == <<"t","/">> \o PIPFILE_LOCK
NameNearMiss == <<"P","i","p","f","i","l","e",".","l","o","c">>

\* SPDX identifiers of a document
SpdxIds == {"SPDXRef-1", "SPDXRef-2"}

-----------------------------------------------------------------------------
(* SPDX documents                                                          *)

Pkg(id, n) == [SPDXID |-> id, name |-> n]

Rel(a, b, t) == [spdxElementId |-> a, relatedSpdxElement |-> b, relationshipType |-> t]

EnvelopeKeys == {"spdxVersion", "dataLicense", "SPDXID", "name", "documentNamespace", "creationInfo"}

\* envelope of a scanner document: key -> value; "None" stands for a key the
\* document does not have, which is also what merged_data starts from
EnvNone == [k \in EnvelopeKeys |-> "None"]
EnvA == [k \in EnvelopeKeys |-> "A"]
EnvB == [k \in EnvelopeKeys |-> IF k = "creationInfo" THEN "None" ELSE "B"]

Doc(e, ps, hr, rs) == [env |-> e, packages |-> ps, hasRel |-> hr, relationships |-> rs]

\* all sequences over S of length at most n
SeqUpTo(S, n) == UNION {[1..k -> S] : k \in 0..n}

-----------------------------------------------------------------------------
(* remove_pipfile_package                                                  *)

\* slip: the name is compared for equality only, paths to the lockfile are missed
IsPipfileEqOnly(pkg) == pkg.name = PIPFILE_LOCK

\* app.py: (pkg.get("name") or "").find("Pipfile.lock") >= 0
IsPipfileApp(pkg) == Find(OrEmpty(pkg.name), PIPFILE_LOCK) >= 0

\* main.py: pkg.get("name") and "Pipfile.lock" in pkg.get("name")
IsPipfileMain(pkg) == Truthy(pkg.name) /\ Contains(pkg.name, PIPFILE_LOCK)

IsPipfile(v, pkg) == IF v = "app" THEN IsPipfileApp(pkg) ELSE IsPipfileMain(pkg)

\* the list pipfile_spdxids
PipfileSpdxIds(v, data) ==
    LET hit == SelectSeq(data.packages, LAMBDA p : IsPipfile(v, p))
    IN  [i \in 1..Len(hit) |-> hit[i].SPDXID]

\* the condition under which relationships are rewritten
RewritesRelationships(v, data) ==
    IF v = "app"
    THEN data.hasRel /\ PipfileSpdxIds(v, data) # <<>>
    ELSE data.hasRel

\* slip: packages are removed from the list while it is being iterated, so the
\* element that follows a removed one is skipped
RECURSIVE RemoveWhileIterating(_, _, _)
RemoveWhileIterating(v, ps, i) ==
    IF i > Len(ps) THEN ps
    ELSE IF IsPipfile(v, ps[i])
         THEN RemoveWhileIterating(v, SubSeq(ps, 1, i - 1) \o SubSeq(ps, i + 1, Len(ps)), i + 1)
         ELSE RemoveWhileIterating(v, ps, i + 1)

RemovePipfileDocSkipping(v, data) ==
    LET ids == Range(PipfileSpdxIds(v, data))
        keptRels == SelectSeq(data.relationships,
                        LAMBDA r : r.spdxElementId \notin ids
                                   /\ r.relatedSpdxElement \notin ids)
    IN  [data EXCEPT !.packages = RemoveWhileIterating(v, data.packages, 1),
                     !.relationships =
                         IF RewritesRelationships(v, data) THEN keptRels ELSE @]

\* slip: packages are dropped by SPDXID, so a package that shares its SPDXID
\* with a lockfile package goes too
RemovePipfileDocByIds(v, data) ==
    LET ids == Range(PipfileSpdxIds(v, data))
        keptRels == SelectSeq(data.relationships,
                        LAMBDA r : r.spdxElementId \notin ids
                                   /\ r.relatedSpdxElement \notin ids)
    IN  [data EXCEPT !.packages = SelectSeq(@, LAMBDA p : p.SPDXID \notin ids),
                     !.relationships =
                         IF RewritesRelationships(v, data) THEN keptRels ELSE @]

\* the document written back by remove_pipfile_package
RemovePipfileDoc(v, data) ==
    LET ids == Range(PipfileSpdxIds(v, data))
        keptPkgs == SelectSeq(data.packages, LAMBDA p : ~IsPipfile(v, p))
        keptRels == SelectSeq(data.relationships,
                        LAMBDA r : r.spdxElementId \notin ids
                                   /\ r.relatedSpdxElement \notin ids)
    IN  [data EXCEPT !.packages = keptPkgs,
                     !.relationships =
                         IF RewritesRelationships(v, data) THEN keptRels ELSE @]

-----------------------------------------------------------------------------
(* File names of the output directory                                      *)

DOT_JSON == <<".","j","s","o","n">>
TAG_PYTHON == <<"_","p","y","t","h","o","n","_">>
TAG_NODEJS == <<"_","n","o","d","e","j","s","_">>
TAG_JAVA == <<"_","j","a","v","a","_">>
PYTHON_PREFIX == <<"p","y","t","h","o","n","_">>
NODEJS_PREFIX == <<"n","o","d","e","j","s","_">>

\* the four characters that open every file name of app_p.py, by code point
CHOSA == <<"U+5B9A","U+671F","U+8ABF","U+67FB">>

\* str.zfill(width)
RECURSIVE Zfill(_, _)
Zfill(s, width) == IF Len(s) >= width THEN s ELSE Zfill(<<"0">> \o s, width)

\* name.replace("/", "_")
SafeName(name) == [i \in 1..Len(name) |-> IF name[i] = "/" THEN "_" ELSE name[i]]

IdxWidth == 5

\* app_p.py: f"....__{Lang}__{idx.zfill(5)}_{lang}_{safe_name}@{version}.json"
FileNameP(Lang, lang, idx, name, version) ==
    CHOSA \o <<"_","_">> \o Lang \o <<"_","_">> \o Zfill(idx, IdxWidth) \o <<"_">> \o lang
        \o <<"_">> \o SafeName(name) \o <<"@">> \o version \o DOT_JSON

\* app_n.py: f"python_{name}_{version}.json", f"nodejs_{name}_{version}.json"
FileNameN(prefix, name, version) == prefix \o name \o <<"_">> \o version \o DOT_JSON

\* os.path.join(OUTPUT_DIR, "python_packages.json") and its siblings
MergedFile(eco) ==
    CASE eco = "python" -> <<"p","y","t","h","o","n","_","p","a","c","k","a","g","e","s">> \o DOT_JSON
      [] eco = "nodejs" -> <<"n","o","d","e","j","s","_","p","a","c","k","a","g","e","s">> \o DOT_JSON
      [] eco = "java" -> <<"j","a","v","a","_","p","a","c","k","a","g","e","s">> \o DOT_JSON

\* the per-package file of request (idx, eco, name, version) in program v
PackageFile(v, eco, idx, name, version) ==
    IF v = "app_n"
    THEN FileNameN(IF eco = "python" THEN PYTHON_PREFIX ELSE NODEJS_PREFIX, name, version)
    ELSE CASE eco = "python" ->
                FileNameP(<<"P","y","t","h","o","n">>, <<"p","y","t","h","o","n">>, idx, name, version)
           [] eco = "nodejs" ->
                FileNameP(<<"N","o","d","e","j","s">>, <<"n","o","d","e","j","s">>, idx, name, version)
           [] eco = "java" ->
                FileNameP(<<"J","a","v","a">>, <<"j","a","v","a">>, idx, name, version)

-----------------------------------------------------------------------------
(* merge_sbom_files, merge_nodejs_sbom_files, merge_java_sbom_files        *)

PACKAGE_LOCK_JSON == <<"p","a","c","k","a","g","e","-","l","o","c","k">> \o DOT_JSON
DOT_JAR == <<".","j","a","r">>
TEMP == <<"T","e","m","p">>
TMP == <<"t","m","p">>

\* the file filter of the two loops of a merge function
MatchesFile(v, eco, filename) ==
    IF v = "app_n"
    THEN StartsWith(filename, PYTHON_PREFIX) /\ EndsWith(filename, DOT_JSON)
    ELSE /\ Contains(filename, CASE eco = "python" -> TAG_PYTHON
                                 [] eco = "nodejs" -> TAG_NODEJS
                                 [] eco = "java" -> TAG_JAVA)
         /\ EndsWith(filename, DOT_JSON)

\* the name test of the first loop; name = pkg.get("name", "")
IsExcludedName(eco, pkg) ==
    LET name == IF pkg.name = None THEN << >> ELSE pkg.name
    IN  CASE eco = "python" -> name = PIPFILE_LOCK \/ Contains(name, PIPFILE_LOCK)
          [] eco = "nodejs" -> name = PACKAGE_LOCK_JSON \/ Contains(name, PACKAGE_LOCK_JSON)
          [] eco = "java" -> EndsWith(name, DOT_JAR) \/ Contains(name, TEMP) \/ Contains(name, TMP)

\* os.listdir(output_dir): the files present, in the directory's order
Listdir(dir, order) == SelectSeq(order, LAMBDA f : f \in DOMAIN dir)

\* the files a loop of a merge function reads, in the order it reads them
MatchingFiles(v, eco, dir, order) ==
    SelectSeq(Listdir(dir, order), LAMBDA f : MatchesFile(v, eco, f))

\* slip: first_metadata is never set, so every matching file overwrites the envelope
MergedEnvelopeLast(files, dir) ==
    IF files = << >> THEN EnvNone ELSE dir[files[Len(files)]].env

\* first loop: the envelope kept in merged_data
MergedEnvelope(files, dir) ==
    IF files = << >> THEN EnvNone ELSE dir[files[1]].env

\* slip: the ids are collected from the first file listed only
ExcludedSpdxIdsFirstFile(eco, files, dir) ==
    IF files = << >> THEN {}
    ELSE {p.SPDXID : p \in {q \in Range(dir[files[1]].packages) : IsExcludedName(eco, q)}}

\* first loop: pipfile_spdxids / lock_spdxids / exclude_spdxids
ExcludedSpdxIds(eco, files, dir) ==
    UNION {{p.SPDXID : p \in {q \in Range(dir[f].packages) : IsExcludedName(eco, q)}}
             : f \in Range(files)}

\* slip: only the source end of a relationship is tested
KeepsRelOneSided(rel, excluded) == rel.spdxElementId \notin excluded

\* second loop: the relationship filter
KeepsRel(rel, excluded) ==
    rel.spdxElementId \notin excluded /\ rel.relatedSpdxElement \notin excluded

\* second loop: merged_data["packages"].extend(...) over the files
RECURSIVE ExtendPackages(_, _, _)
ExtendPackages(files, dir, excluded) ==
    IF files = << >> THEN << >>
    ELSE SelectSeq(dir[Head(files)].packages, LAMBDA p : p.SPDXID \notin excluded)
            \o ExtendPackages(Tail(files), dir, excluded)

\* second loop: merged_data["relationships"].extend(...) over the files
RECURSIVE ExtendRelationships(_, _, _)
ExtendRelationships(files, dir, excluded) ==
    IF files = << >> THEN << >>
    ELSE SelectSeq(dir[Head(files)].relationships, LAMBDA r : KeepsRel(r, excluded))
            \o ExtendRelationships(Tail(files), dir, excluded)

\* slip: one loop only, a file is filtered by the ids collected up to that file
RECURSIVE MergeSinglePass(_, _, _, _, _)
MergeSinglePass(eco, files, dir, i, acc) ==
    IF i > Len(files) THEN acc
    ELSE LET excluded == ExcludedSpdxIds(eco, SubSeq(files, 1, i), dir)
             d == dir[files[i]]
         IN  MergeSinglePass(eco, files, dir, i + 1,
                [acc EXCEPT !.packages = @ \o SelectSeq(d.packages,
                                                LAMBDA p : p.SPDXID \notin excluded),
                            !.relationships = @ \o SelectSeq(d.relationships,
                                                LAMBDA r : KeepsRel(r, excluded))])

MergedDataSinglePass(v, eco, dir, order) ==
    LET files == MatchingFiles(v, eco, dir, order)
    IN  MergeSinglePass(eco, files, dir, 1,
                        Doc(MergedEnvelope(files, dir), << >>, TRUE, << >>))

\* merged_data as dumped to merged_file
MergedData(v, eco, dir, order) ==
    LET files == MatchingFiles(v, eco, dir, order)
        excluded == ExcludedSpdxIds(eco, files, dir)
    IN  Doc(MergedEnvelope(files, dir),
            ExtendPackages(files, dir, excluded),
            TRUE,
            ExtendRelationships(files, dir, excluded))

-----------------------------------------------------------------------------
(* map_pipenv_graph_to_sbom, map_npm_ls_to_sbom                            *)

\* name_to_spdxid.get(name): the dict comprehension keeps, for a name, the
\* SPDXID of the last package that carries it; packages without name are skipped
NameToSpdxId(pkgs, n) ==
    LET named == SelectSeq(pkgs, LAMBDA p : p.name # None /\ p.name = n)
    IN  IF named = << >> THEN "None" ELSE named[Len(named)].SPDXID

\* truthiness of name_to_spdxid.get(...)
Resolved(id) == id # "None" /\ id # ""

DependsOn(parent_spdxid, child_spdxid) == Rel(parent_spdxid, child_spdxid, "DEPENDS_ON")

\* slip: only the parent is tested before the relationship is appended
RECURSIVE PipenvDepRelsParentOnly(_, _, _)
PipenvDepRelsParentOnly(pkgs, parent, deps) ==
    IF deps = << >> THEN << >>
    ELSE LET parent_spdxid == NameToSpdxId(pkgs, parent)
             child_spdxid == NameToSpdxId(pkgs, Head(deps))
         IN  (IF Resolved(parent_spdxid)
              THEN <<DependsOn(parent_spdxid, child_spdxid)>>
              ELSE << >>) \o PipenvDepRelsParentOnly(pkgs, parent, Tail(deps))

\* the inner loop of map_pipenv_graph_to_sbom: what one node appends
RECURSIVE PipenvDepRels(_, _, _)
PipenvDepRels(pkgs, parent, deps) ==
    IF deps = << >> THEN << >>
    ELSE LET parent_spdxid == NameToSpdxId(pkgs, parent)
             child_spdxid == NameToSpdxId(pkgs, Head(deps))
         IN  (IF Resolved(parent_spdxid) /\ Resolved(child_spdxid)
              THEN <<DependsOn(parent_spdxid, child_spdxid)>>
              ELSE << >>) \o PipenvDepRels(pkgs, parent, Tail(deps))

\* the outer loop of map_pipenv_graph_to_sbom: what the graph appends
RECURSIVE PipenvGraphRels(_, _)
PipenvGraphRels(pkgs, graph) ==
    IF graph = << >> THEN << >>
    ELSE PipenvDepRels(pkgs, Head(graph).key, Head(graph).dependencies)
            \o PipenvGraphRels(pkgs, Tail(graph))

\* slip: the list starts empty instead of from sbom.get("relationships", [])
MapPipenvGraphDocReplacing(sbom, graph) ==
    [sbom EXCEPT !.hasRel = TRUE,
                 !.relationships = PipenvGraphRels(sbom.packages, graph)]

\* the document map_pipenv_graph_to_sbom writes back
MapPipenvGraphDoc(sbom, graph) ==
    [sbom EXCEPT !.hasRel = TRUE,
                 !.relationships = @ \o PipenvGraphRels(sbom.packages, graph)]

\* walk_dependencies(parent_name, deps): what the walk appends
RECURSIVE WalkDependencies(_, _, _)
WalkDependencies(pkgs, parent_name, deps) ==
    LET parent_spdxid == NameToSpdxId(pkgs, parent_name)
    IN  IF ~Resolved(parent_spdxid) \/ deps = << >> THEN << >>
        ELSE LET child == Head(deps)
                 child_spdxid == NameToSpdxId(pkgs, child.name)
             IN  (IF Resolved(child_spdxid)
                  THEN <<DependsOn(parent_spdxid, child_spdxid)>>
                  ELSE << >>)
                 \o WalkDependencies(pkgs, child.name, child.dependencies)
                 \o WalkDependencies(pkgs, parent_name, Tail(deps))

\* the document map_npm_ls_to_sbom writes back
MapNpmLsDoc(sbom, npm_tree) ==
    [sbom EXCEPT !.hasRel = TRUE,
                 !.relationships =
                     @ \o WalkDependencies(sbom.packages, npm_tree.name, npm_tree.dependencies)]

-----------------------------------------------------------------------------
(* Specification SpecSan: remove_pipfile_package called twice on one file  *)
(* of the output directory                                                 *)

SanMaxPkgs == 2
SanMaxRels == 1

SanNames == {None, PIPFILE_LOCK, NameLockPath, NameFlask, NameNearMiss}

SanPkgs == {Pkg(id, n) : id \in SpdxIds, n \in SanNames}

SanRels == {Rel(a, b, "CONTAINS") : a \in SpdxIds, b \in SpdxIds}

SanDocs ==
    {Doc(EnvA, ps, TRUE, rs) : ps \in SeqUpTo(SanPkgs, SanMaxPkgs),
                               rs \in SeqUpTo(SanRels, SanMaxRels)}
    \cup {Doc(EnvA, ps, FALSE, <<>>) : ps \in SeqUpTo(SanPkgs, SanMaxPkgs)}

\* f"{name}_{version}.json"
SbomPath == <<"f","l","a","s","k","_","1",".","j","s","o","n">>

InitSan ==
    /\ variant \in {"app", "main"}
    /\ \/ fs = << >>
       \/ \E d \in SanDocs : fs = (SbomPath :> d)
    /\ pc = "sanitize"
    /\ runs = 0
    /\ hist = IF SbomPath \in DOMAIN fs THEN <<fs[SbomPath]>> ELSE << >>
    /\ arg = SbomPath

\* remove_pipfile_package(sbom_path) when the file exists
RemovePipfilePackage ==
    /\ pc = "sanitize"
    /\ runs < 2
    /\ arg \in DOMAIN fs
    /\ fs' = [fs EXCEPT ![arg] = RemovePipfileDoc(variant, fs[arg])]
    /\ hist' = Append(hist, fs'[arg])
    /\ runs' = runs + 1
    /\ UNCHANGED <<variant, pc, arg>>

\* remove_pipfile_package(sbom_path) when the file is missing: log and return
RemovePipfileMissing ==
    /\ pc = "sanitize"
    /\ runs < 2
    /\ arg \notin DOMAIN fs
    /\ runs' = runs + 1
    /\ UNCHANGED <<variant, fs, pc, hist, arg>>

NextSan == RemovePipfilePackage \/ RemovePipfileMissing

SpecSan == InitSan /\ [][NextSan]_vars

\* a name that equals or contains "Pipfile.lock"
NameHasLock(n) == n # None /\ Contains(n, PIPFILE_LOCK)

\* SPDXIDs of the packages of d that carry a lockfile name
LockIdsOf(d) == {p.SPDXID : p \in {q \in Range(d.packages) : NameHasLock(q.name)}}

\* C1: after remove_pipfile_package has run on an existing document, no package
\* of the document has a name that equals or contains "Pipfile.lock", and no
\* relationship has an endpoint that is the SPDXID of a package the call removed.
C1_SanitizedHasNoLockfile ==
    pc = "sanitize" =>
        \A i \in 2..Len(hist) :
            /\ \A p \in Range(hist[i].packages) : ~NameHasLock(p.name)
            /\ \A r \in Range(hist[i].relationships) :
                    /\ r.spdxElementId \notin LockIdsOf(hist[i - 1])
                    /\ r.relatedSpdxElement \notin LockIdsOf(hist[i - 1])

\* a call removed a lockfile package named by a path and a relationship touching it
C1_Witness ==
    /\ pc = "sanitize"
    /\ Len(hist) >= 2
    /\ \E p \in Range(hist[1].packages) : p.name = NameLockPath
    /\ Len(hist[2].packages) >= 1
    /\ Len(hist[1].relationships) = 1
    /\ Len(hist[2].relationships) = 0

\* C2: sanitize is idempotent; the document after a second call of
\* remove_pipfile_package equals the document after the first call.
C2_SanitizeIdempotent ==
    (pc = "sanitize" /\ Len(hist) = 3) => hist[3] = hist[2]

\* the first call changed both lists and a second call has been made
C2_Witness ==
    /\ pc = "sanitize"
    /\ Len(hist) = 3
    /\ Len(hist[2].packages) < Len(hist[1].packages)
    /\ Len(hist[2].relationships) < Len(hist[1].relationships)
    /\ Len(hist[2].packages) >= 1

-----------------------------------------------------------------------------
(* Specification SpecMerge: a merge function run twice over an output      *)
(* directory holding two per-package files of one ecosystem, a file of     *)
(* another ecosystem and, after a run, the merged file                     *)

MergeMaxPkgs == 2

NameExpress == <<"e","x","p","r","e","s","s">>
NameJunit == <<"j","u","n","i","t">>
NameJar == <<"a">> \o DOT_JAR
NameTempDir == <<"C",":","/">> \o TEMP \o <<"/","a">>
NameTmpDir == <<"/">> \o TMP \o <<"/","a">>

\* package names of the first and of the second per-package file
MergeNames(eco, first) ==
    CASE eco = "python" -> IF first THEN {PIPFILE_LOCK, NameFlask} ELSE {NameLockPath, NameFlask}
      [] eco = "nodejs" -> IF first THEN {PACKAGE_LOCK_JSON, NameExpress}
                                    ELSE {<<"t","/">> \o PACKAGE_LOCK_JSON, NameExpress}
      [] eco = "java" -> IF first THEN {NameJar, NameTempDir, NameJunit}
                                  ELSE {NameTmpDir, NameJunit}

MergePkgs(eco, first) == {Pkg(id, n) : id \in SpdxIds, n \in MergeNames(eco, first)}

MergeRels == {Rel(a, b, "CONTAINS") : a \in SpdxIds, b \in SpdxIds}

\* the package lists of the two files: MergeMaxPkgs packages in all for
\* merge_sbom_files of app_p.py, at most one a file for the other functions
MergePkgLists(v, eco) ==
    IF v = "app_p" /\ eco = "python"
    THEN {pp \in SeqUpTo(MergePkgs(eco, TRUE), MergeMaxPkgs)
                    \X SeqUpTo(MergePkgs(eco, FALSE), MergeMaxPkgs) :
             Len(pp[1]) + Len(pp[2]) <= MergeMaxPkgs}
    ELSE SeqUpTo(MergePkgs(eco, TRUE), 1) \X SeqUpTo(MergePkgs(eco, FALSE), 1)

\* the relationship lists of the two files: at most one a file
MergeRelLists == SeqUpTo(MergeRels, 1) \X SeqUpTo(MergeRels, 1)

\* the two per-package files of the ecosystem being merged
FileA(v, eco) == PackageFile(v, eco, <<"1">>, <<"a">>, <<"1">>)
FileB(v, eco) == PackageFile(v, eco, <<"2">>, <<"b">>, <<"1">>)

\* a per-package file of another ecosystem, and what it holds
OtherFile(v, eco) ==
    PackageFile(v, IF eco = "nodejs" THEN "python" ELSE "nodejs", <<"3">>, <<"c">>, <<"1">>)
OtherDoc == Doc(EnvNone, <<Pkg("SPDXRef-9", <<"c">>)>>, TRUE,
                <<Rel("SPDXRef-9", "SPDXRef-9", "CONTAINS")>>)

\* the orders in which the directory may list its files
Permutations3(a, b, c) ==
    {<<a, b, c>>, <<a, c, b>>, <<b, a, c>>, <<b, c, a>>, <<c, a, b>>, <<c, b, a>>}
DirOrders(v, eco) ==
    {o \o <<OtherFile(v, eco)>> : o \in Permutations3(FileA(v, eco), FileB(v, eco), MergedFile(eco))}

InitMerge ==
    /\ variant \in {"app_p", "app_n"}
    /\ \E eco \in (IF variant = "app_n" THEN {"python"} ELSE {"python", "nodejs", "java"}) :
         /\ \E o \in DirOrders(variant, eco) : arg = [eco |-> eco, order |-> o]
         /\ \E pp \in MergePkgLists(variant, eco), rr \in MergeRelLists :
              \E A \in SUBSET {FileA(variant, eco)}, B \in SUBSET {FileB(variant, eco)} :
                 /\ A = {} => (pp[1] = << >> /\ rr[1] = << >>)
                 /\ B = {} => (pp[2] = << >> /\ rr[2] = << >>)
                 /\ fs = [f \in A |-> Doc(EnvA, pp[1], TRUE, rr[1])]
                         @@ [f \in B |-> Doc(EnvB, pp[2], TRUE, rr[2])]
                         @@ (OtherFile(variant, eco) :> OtherDoc)
    /\ pc = "merge"
    /\ runs = 0
    /\ hist = << >>

\* the body shared by the three merge functions: read, combine, dump
MergeInto(eco) ==
    /\ pc = "merge"
    /\ arg.eco = eco
    /\ runs < 2
    /\ LET merged == MergedData(variant, eco, fs, arg.order)
       IN  /\ fs' = (MergedFile(eco) :> merged) @@ fs
           /\ hist' = Append(hist, [pre |-> fs, out |-> merged])
    /\ runs' = runs + 1
    /\ UNCHANGED <<variant, pc, arg>>

\* merge_sbom_files(OUTPUT_DIR, OUTPUT_DIR/python_packages.json)
MergeSbomFiles == MergeInto("python")

\* merge_nodejs_sbom_files(OUTPUT_DIR, OUTPUT_DIR/nodejs_packages.json)
MergeNodejsSbomFiles == variant = "app_p" /\ MergeInto("nodejs")

\* merge_java_sbom_files(OUTPUT_DIR, OUTPUT_DIR/java_packages.json)
MergeJavaSbomFiles == variant = "app_p" /\ MergeInto("java")

NextMerge == MergeSbomFiles \/ MergeNodejsSbomFiles \/ MergeJavaSbomFiles

SpecMerge == InitMerge /\ [][NextMerge]_vars

\* the per-package documents of the ecosystem that run h of a merge had before it
PerPackageFiles(h) ==
    {FileA(variant, arg.eco), FileB(variant, arg.eco)} \cap DOMAIN h.pre

\* the exclusion rule of an ecosystem, on a package name
NameExcluded(eco, n) ==
    /\ n # None
    /\ CASE eco = "python" -> Contains(n, PIPFILE_LOCK)
         [] eco = "nodejs" -> Contains(n, PACKAGE_LOCK_JSON)
         [] eco = "java" -> EndsWith(n, DOT_JAR) \/ Contains(n, TEMP) \/ Contains(n, TMP)

\* SPDXIDs of the excluded packages of the per-package documents of run h
ExcludedIdsOf(h) ==
    {p.SPDXID : p \in {q \in UNION {Range(h.pre[f].packages) : f \in PerPackageFiles(h)} :
                          NameExcluded(arg.eco, q.name)}}

\* the part of C4 that holds as stated: nothing excluded is in the merged
\* document, and every relationship that touches no excluded id is
MergeExcludes(h) ==
    /\ \A p \in Range(h.out.packages) : ~NameExcluded(arg.eco, p.name)
    /\ \A r \in Range(h.out.relationships) :
          r.spdxElementId \notin ExcludedIdsOf(h) /\ r.relatedSpdxElement \notin ExcludedIdsOf(h)
    /\ \A f \in PerPackageFiles(h) : \A r \in Range(h.pre[f].relationships) :
          (r.spdxElementId \notin ExcludedIdsOf(h) /\ r.relatedSpdxElement \notin ExcludedIdsOf(h))
             => r \in Range(h.out.relationships)

\* C4 as stated: in app_p.py the merged document has no package with an excluded
\* name and no relationship touching an excluded package's SPDXID, and every
\* other package (every package whose name is not excluded) and relationship of
\* every matching document is in the merged document.
C4_MergeKeepsEveryOtherPackage ==
    (pc = "merge" /\ variant = "app_p") =>
        \A i \in 1..Len(hist) :
            /\ MergeExcludes(hist[i])
            /\ \A f \in PerPackageFiles(hist[i]) : \A p \in Range(hist[i].pre[f].packages) :
                  ~NameExcluded(arg.eco, p.name) => p \in Range(hist[i].out.packages)

\* C4 amended: as C4, but the packages that must be present are those whose
\* SPDXID is not the SPDXID of an excluded package of any matching document.
C4_MergeKeepsEveryOtherId ==
    (pc = "merge" /\ variant = "app_p") =>
        \A i \in 1..Len(hist) :
            /\ MergeExcludes(hist[i])
            /\ \A f \in PerPackageFiles(hist[i]) : \A p \in Range(hist[i].pre[f].packages) :
                  p.SPDXID \notin ExcludedIdsOf(hist[i]) => p \in Range(hist[i].out.packages)

\* a merge dropped a lockfile package of one file and a relationship of the
\* other file that touches it, and kept a relationship
C4_Witness ==
    /\ pc = "merge" /\ variant = "app_p" /\ Len(hist) >= 1
    /\ Cardinality(PerPackageFiles(hist[1])) = 2
    /\ LET pre == hist[1].pre
           A == FileA(variant, arg.eco)
           B == FileB(variant, arg.eco)
       IN  /\ \E p \in Range(pre[A].packages) : NameExcluded(arg.eco, p.name)
           /\ \E r \in Range(pre[B].relationships) : r.relatedSpdxElement \in ExcludedIdsOf(hist[1])
           /\ \E r \in Range(pre[A].relationships) : r \in Range(hist[1].out.relationships)

\* position of file f in the directory's listing order
PosInOrder(f) == CHOOSE i \in 1..Len(arg.order) : arg.order[i] = f

\* C5: the envelope fields of the merged document are those of the first
\* matching document read, whatever the envelopes of the documents read later.
C5_EnvelopeOfFirst ==
    pc = "merge" =>
        \A i \in 1..Len(hist) :
            LET read == {f \in DOMAIN hist[i].pre : MatchesFile(variant, arg.eco, f)}
            IN  \A f \in read :
                    (\A g \in read : PosInOrder(f) <= PosInOrder(g))
                        => \A k \in EnvelopeKeys : hist[i].out.env[k] = hist[i].pre[f].env[k]

\* two documents with different envelopes were merged, the second file first
C5_Witness ==
    /\ pc = "merge" /\ Len(hist) >= 1
    /\ Cardinality(PerPackageFiles(hist[1])) = 2
    /\ PosInOrder(FileB(variant, arg.eco)) < PosInOrder(FileA(variant, arg.eco))
    /\ hist[1].out.env = EnvB
    /\ hist[1].pre[FileA(variant, arg.eco)].env = EnvA

\* the listing order with the two per-package files exchanged
Exchanged(order, a, b) ==
    [i \in 1..Len(order) |-> IF order[i] = a THEN b ELSE IF order[i] = b THEN a ELSE order[i]]

\* C6: merging the same documents with the two per-package files listed in
\* the opposite order gives the same set of packages and the same set of
\* relationships.
C6_MergeOrderIndependent ==
    pc = "merge" =>
        \A i \in 1..Len(hist) :
            LET other == MergedData(variant, arg.eco, hist[i].pre,
                            Exchanged(arg.order, FileA(variant, arg.eco), FileB(variant, arg.eco)))
            IN  /\ Range(other.packages) = Range(hist[i].out.packages)
                /\ Range(other.relationships) = Range(hist[i].out.relationships)

\* two documents were merged whose packages and relationships come out in
\* another sequence under the opposite order
C6_Witness ==
    /\ pc = "merge" /\ Len(hist) >= 1
    /\ Cardinality(PerPackageFiles(hist[1])) = 2
    /\ LET other == MergedData(variant, arg.eco, hist[1].pre,
                        Exchanged(arg.order, FileA(variant, arg.eco), FileB(variant, arg.eco)))
       IN  /\ other.packages # hist[1].out.packages
           /\ other.relationships # hist[1].out.relationships

\* C7: a second run of merge_sbom_files over the same per-package files, the
\* merged file lying in the output directory, leaves the merged document of the
\* first run.
C7_MergeRerunIdempotent ==
    (pc = "merge" /\ arg.eco = "python" /\ Len(hist) >= 2) => hist[2].out = hist[1].out

\* C8: when two python per-package files are merged, no SPDXID occurs twice
\* in the packages of the merged document.
C8_MergedIdsUnique ==
    (pc = "merge" /\ arg.eco = "python" /\ Len(hist) >= 1
        /\ Cardinality(PerPackageFiles(hist[1])) = 2) =>
        \A i, j \in 1..Len(hist[1].out.packages) :
            hist[1].out.packages[i].SPDXID = hist[1].out.packages[j].SPDXID => i = j

\* C23: merge exclusion is by SPDXID across all matching documents: when a
\* matching document holds a package with an excluded name, the merged
\* document of app_p.py holds no package with that SPDXID and no relationship
\* touching it, from whichever document and in whatever listing order.
C23_ExclusionAcrossDocuments ==
    (pc = "merge" /\ variant = "app_p") =>
        \A i \in 1..Len(hist) : \A x \in ExcludedIdsOf(hist[i]) :
            /\ \A p \in Range(hist[i].out.packages) : p.SPDXID # x
            /\ \A r \in Range(hist[i].out.relationships) :
                  r.spdxElementId # x /\ r.relatedSpdxElement # x

\* the second file holds the package with the excluded name; the first file,
\* listed before it, holds a package of an ordinary name with the same SPDXID
\* and a relationship touching it
C23_Witness ==
    /\ pc = "merge" /\ variant = "app_p" /\ Len(hist) >= 1
    /\ Cardinality(PerPackageFiles(hist[1])) = 2
    /\ LET pre == hist[1].pre
           A == FileA(variant, arg.eco)
           B == FileB(variant, arg.eco)
       IN  /\ PosInOrder(A) < PosInOrder(B)
           /\ \E p \in Range(pre[B].packages), q \in Range(pre[A].packages) :
                 /\ NameExcluded(arg.eco, p.name)
                 /\ ~NameExcluded(arg.eco, q.name)
                 /\ q.SPDXID = p.SPDXID
                 /\ \E r \in Range(pre[A].relationships) : r.spdxElementId = p.SPDXID

-----------------------------------------------------------------------------
(* Specification SpecMap: one of the two mappers applied to a document and *)
(* a dependency graph                                                      *)

MapMaxDeps == 2

NameA == <<"a">>
NameB == <<"b">>
NameC == <<"c">>
NameD == <<"d">>
MapNames == {NameA, NameB, NameC}
NameOrder == <<NameA, NameB, NameC, NameD>>

\* the names of S as a list
SeqOf(S) == SelectSeq(NameOrder, LAMBDA n : n \in S)

\* the packages of a document that gives name n the SPDXID m[n] ("" for no
\* package of that name), after a package that has no name
PkgsOf(m) ==
    <<Pkg("SPDXRef-0", None)>>
        \o [i \in 1..Len(SeqOf({n \in DOMAIN m : m[n] # ""})) |->
               Pkg(m[SeqOf({n \in DOMAIN m : m[n] # ""})[i]], SeqOf({n \in DOMAIN m : m[n] # ""})[i])]

\* a relationship the scanner wrote
ScanRel == Rel("SPDXRef-DOCUMENT", "SPDXRef-0", "DESCRIBES")

MapDocs ==
    {Doc(EnvA, PkgsOf(m), TRUE, <<ScanRel>>) : m \in [MapNames -> {""} \cup SpdxIds]}
    \cup {Doc(EnvA, PkgsOf(m), FALSE, << >>) : m \in [MapNames -> {"", "SPDXRef-1"}]}
    \cup {Doc(EnvA, <<Pkg("SPDXRef-1", NameA), Pkg("SPDXRef-2", NameA), Pkg("SPDXRef-1", NameB)>>,
              TRUE, <<ScanRel>>)}

\* the dependency lists a node may have
DepSets == {S \in SUBSET MapNames : Cardinality(S) <= MapMaxDeps}

\* pipenv graph --json: a list of nodes, each with its direct dependencies
PipenvNode(n, S) == [key |-> n, dependencies |-> SeqOf(S)]
PipenvGraphs ==
    {[i \in 1..Len(SeqOf(N)) |-> PipenvNode(SeqOf(N)[i], g[SeqOf(N)[i]])] :
        <<N, g>> \in UNION {{<<M, h>> : h \in [M -> DepSets]} : M \in SUBSET MapNames}}

\* npm ls --all --json: a tree of nodes keyed by name
NpmLeaves(S) == [i \in 1..Len(SeqOf(S)) |-> [name |-> SeqOf(S)[i], dependencies |-> << >>]]
NpmChildLists ==
    {[i \in 1..Len(SeqOf(N)) |-> [name |-> SeqOf(N)[i], dependencies |-> NpmLeaves(g[SeqOf(N)[i]])]] :
        <<N, g>> \in UNION {{<<M, h>> : h \in [M -> DepSets]} : M \in DepSets}}
NpmTrees == {[name |-> r, dependencies |-> cl] : r \in MapNames \cup {None}, cl \in NpmChildLists}

\* the diamond a -> b, a -> c, b -> d, c -> d, all four packages in the document
DiamondDoc ==
    Doc(EnvA, <<Pkg("SPDXRef-1", NameA), Pkg("SPDXRef-2", NameB),
                Pkg("SPDXRef-3", NameC), Pkg("SPDXRef-4", NameD)>>, TRUE,
        <<ScanRel, Rel("SPDXRef-0", "SPDXRef-1", "CONTAINS")>>)
DiamondGraph ==
    <<PipenvNode(NameA, {NameB, NameC}), PipenvNode(NameB, {NameD}),
      PipenvNode(NameC, {NameD}), PipenvNode(NameD, {})>>
DiamondTree ==
    [name |-> NameA,
     dependencies |-> <<[name |-> NameB, dependencies |-> NpmLeaves({NameD})],
                        [name |-> NameC, dependencies |-> NpmLeaves({NameD})]>>]

\* sbom_file of the mappers
MapFile == FileNameP(<<"P","y","t","h","o","n">>, <<"p","y","t","h","o","n">>, <<"1">>, <<"a">>, <<"1">>)

InitMap ==
    /\ variant = "app_p"
    /\ \/ \E d \in MapDocs :
            /\ fs = (MapFile :> d)
            /\ \/ \E g \in PipenvGraphs : arg = [mapper |-> "pipenv", graph |-> g]
               \/ \E t \in NpmTrees : arg = [mapper |-> "npm", graph |-> t]
       \/ /\ fs = (MapFile :> DiamondDoc)
          /\ \/ arg = [mapper |-> "pipenv", graph |-> DiamondGraph]
             \/ arg = [mapper |-> "npm", graph |-> DiamondTree]
    /\ pc = "map"
    /\ runs = 0
    /\ hist = <<fs[MapFile]>>

\* map_pipenv_graph_to_sbom(sbom_file, pipenv_graph_file)
MapPipenvGraphToSbom ==
    /\ pc = "map"
    /\ arg.mapper = "pipenv"
    /\ runs = 0
    /\ fs' = [fs EXCEPT ![MapFile] = MapPipenvGraphDoc(@, arg.graph)]
    /\ hist' = Append(hist, fs'[MapFile])
    /\ runs' = 1
    /\ UNCHANGED <<variant, pc, arg>>

\* map_npm_ls_to_sbom(sbom_file, npm_ls_file)
MapNpmLsToSbom ==
    /\ pc = "map"
    /\ arg.mapper = "npm"
    /\ runs = 0
    /\ fs' = [fs EXCEPT ![MapFile] = MapNpmLsDoc(@, arg.graph)]
    /\ hist' = Append(hist, fs'[MapFile])
    /\ runs' = 1
    /\ UNCHANGED <<variant, pc, arg>>

NextMap == MapPipenvGraphToSbom \/ MapNpmLsToSbom

SpecMap == InitMap /\ [][NextMap]_vars

\* the relationships a mapper call appended
Appended == SubSeq(hist[2].relationships, Len(hist[1].relationships) + 1,
                   Len(hist[2].relationships))

\* the SPDXIDs of the packages of the document being mapped
DocSpdxIds == {p.SPDXID : p \in Range(hist[1].packages)}

\* a package of the document being mapped carries name n
HasPackageNamed(n) == \E p \in Range(hist[1].packages) : p.name # None /\ p.name = n

\* the edges (parent, child) of the graph handed to the mapper, one entry for
\* each occurrence
GraphEdges ==
    IF arg.mapper = "pipenv"
    THEN {<<i, j, arg.graph[i].key, arg.graph[i].dependencies[j]>> :
            <<i, j>> \in {ij \in (1..Len(arg.graph)) \X (1..Len(NameOrder)) :
                             ij[2] <= Len(arg.graph[ij[1]].dependencies)}}
    ELSE {<<0, i, arg.graph.name, arg.graph.dependencies[i].name>> :
            i \in 1..Len(arg.graph.dependencies)}
         \cup {<<i, j, arg.graph.dependencies[i].name,
                       arg.graph.dependencies[i].dependencies[j].name>> :
            <<i, j>> \in {ij \in (1..Len(arg.graph.dependencies)) \X (1..Len(NameOrder)) :
                             ij[2] <= Len(arg.graph.dependencies[ij[1]].dependencies)}}

\* the edges both of whose endpoints name a package of the document
ResolvedEdges == {e \in GraphEdges : HasPackageNamed(e[3]) /\ HasPackageNamed(e[4])}

\* C9: every relationship a mapper appends is a DEPENDS_ON relationship whose
\* two endpoints are SPDXIDs of packages of the document being mapped, and it
\* comes from a graph edge whose two endpoints resolve; edges with an unresolved
\* endpoint add nothing.
C9_MappedEndpointsInDocument ==
    (pc = "map" /\ Len(hist) = 2) =>
        /\ \A i \in 1..Len(Appended) :
              /\ Appended[i].relationshipType = "DEPENDS_ON"
              /\ Appended[i].spdxElementId \in DocSpdxIds
              /\ Appended[i].relatedSpdxElement \in DocSpdxIds
              /\ \E e \in ResolvedEdges :
                    /\ Appended[i].spdxElementId = NameToSpdxId(hist[1].packages, e[3])
                    /\ Appended[i].relatedSpdxElement = NameToSpdxId(hist[1].packages, e[4])
        /\ Len(Appended) <= Cardinality(ResolvedEdges)

\* a mapper appended a relationship and dropped an edge with an unresolved child
C9_Witness ==
    /\ pc = "map" /\ Len(hist) = 2
    /\ Len(Appended) >= 1
    /\ \E e \in GraphEdges : HasPackageNamed(e[3]) /\ ~HasPackageNamed(e[4])

\* C10: a mapper appends exactly one DEPENDS_ON relationship for each graph
\* edge whose two endpoints both resolve; the diamond yields 4.
C10_OneRelationshipPerEdge ==
    (pc = "map" /\ Len(hist) = 2) =>
        /\ Len(Appended) = Cardinality(ResolvedEdges)
        /\ \A e \in ResolvedEdges : \E i \in 1..Len(Appended) :
              /\ Appended[i].spdxElementId = NameToSpdxId(hist[1].packages, e[3])
              /\ Appended[i].relatedSpdxElement = NameToSpdxId(hist[1].packages, e[4])
        /\ hist[1] = DiamondDoc => Len(Appended) = 4

\* C22: the mappers only append: after a call the packages of the document
\* are as before, the relationships present before the call are the first
\* relationships of the document, in their order, every relationship after
\* them is a DEPENDS_ON relationship, and the envelope is as before.
C22_MappersOnlyAppend ==
    (pc = "map" /\ Len(hist) = 2) =>
        /\ hist[2].packages = hist[1].packages
        /\ hist[2].env = hist[1].env
        /\ Len(hist[2].relationships) >= Len(hist[1].relationships)
        /\ SubSeq(hist[2].relationships, 1, Len(hist[1].relationships)) = hist[1].relationships
        /\ \A i \in 1..Len(Appended) : Appended[i].relationshipType = "DEPENDS_ON"

\* a mapper appended to a document that held two relationships of the scanner
C22_Witness ==
    /\ pc = "map" /\ Len(hist) = 2
    /\ Len(hist[1].relationships) = 2
    /\ hist[1].relationships[1] # hist[1].relationships[2]
    /\ Len(Appended) >= 2

\* the edges below the first level of the npm tree
DeepEdges == {e \in GraphEdges : arg.mapper = "npm" /\ e[1] > 0}

\* C11: map_npm_ls_to_sbom walks the whole nested tree: every edge at every
\* depth whose two endpoints resolve has its DEPENDS_ON relationship in the
\* document, also when the root or an ancestor has no SPDXID in the document.
C11_NpmWalkExhaustive ==
    (pc = "map" /\ Len(hist) = 2 /\ arg.mapper = "npm") =>
        \A e \in ResolvedEdges \cap DeepEdges :
            \E i \in 1..Len(Appended) :
                Appended[i] = DependsOn(NameToSpdxId(hist[1].packages, e[3]),
                                        NameToSpdxId(hist[1].packages, e[4]))

-----------------------------------------------------------------------------
(* Specification SpecJob: one create_python_sbom or create_nodejs_sbom job *)
(* of app_p.py, command by command                                         *)

JobMaxPkgs == 2

\* str(x)
Str(x) == IF x = None THEN <<"N","o","n","e">> ELSE x

\* the lockfile the scanner is pointed at
LockFileName(lang) == IF lang = "python" THEN PIPFILE_LOCK ELSE PACKAGE_LOCK_JSON

\* pkg.get("name") == lock or lock in str(pkg.get("name"))
IsLockPackage(lang, pkg) ==
    pkg.name = LockFileName(lang) \/ Contains(Str(pkg.name), LockFileName(lang))

\* the document the job writes back after the scan: packages filtered, the
\* rest of the document as the scanner wrote it
FilteredSbom(lang, sbom) ==
    [sbom EXCEPT !.packages = SelectSeq(@, LAMBDA pkg : ~IsLockPackage(lang, pkg))]

\* what the scanner may write for the lockfile of a job
JobNames(lang) == {LockFileName(lang), <<"t","/">> \o LockFileName(lang), NameA, NameB}
ScanDocs(lang) ==
    {Doc(EnvA, ps, TRUE, rs) :
        ps \in SeqUpTo({Pkg(id, n) : id \in SpdxIds, n \in JobNames(lang)}, JobMaxPkgs),
        rs \in SeqUpTo({Rel(a, b, "CONTAINS") : a \in SpdxIds, b \in SpdxIds}, 1)}

\* what pipenv graph --json may print
JobGraphs ==
    {<< >>, <<PipenvNode(NameA, {NameB})>>,
     <<PipenvNode(NameA, {NameB}), PipenvNode(NameB, {})>>}

\* output_path of the job
JobFile == PackageFile("app_p", arg.lang, <<"1">>, NameA, <<"1">>)

InitJob ==
    /\ variant = "app_p"
    /\ \E lang \in {"python", "nodejs"} : \E d \in ScanDocs(lang) :
          \E g \in (IF lang = "python" THEN JobGraphs ELSE {<< >>}) :
             arg = [lang |-> lang, scan |-> d, graph |-> g]
    /\ fs = << >>
    /\ pc = "install"
    /\ runs = 0
    /\ hist = << >>

\* a _run(...) that raises CalledProcessError: the except clause logs the
\* failure; create_python_sbom then goes through finally
JobCommandFails(at) ==
    /\ pc = at
    /\ hist' = Append(hist, "failed")
    /\ pc' = IF arg.lang = "python" THEN "teardown" ELSE "done"
    /\ UNCHANGED <<variant, fs, runs, arg>>

\* pipenv --python, pipenv install, pipenv lock / npm init, npm install
JobInstall ==
    /\ pc = "install"
    /\ hist' = Append(hist, "installed")
    /\ pc' = "scan"
    /\ UNCHANGED <<variant, fs, runs, arg>>

JobInstallFails == JobCommandFails("install")

\* trivy fs <lockfile> --format spdx-json --output output_path
JobScan ==
    /\ pc = "scan"
    /\ fs' = (JobFile :> arg.scan) @@ fs
    /\ hist' = Append(hist, "saved")
    /\ pc' = "filter"
    /\ UNCHANGED <<variant, runs, arg>>

JobScanFails == JobCommandFails("scan")

\* the lockfile packages are taken out of output_path
JobFilter ==
    /\ pc = "filter"
    /\ fs' = [fs EXCEPT ![JobFile] = FilteredSbom(arg.lang, @)]
    /\ hist' = Append(hist, "filtered")
    /\ pc' = IF arg.lang = "python" THEN "graph" ELSE "done"
    /\ UNCHANGED <<variant, runs, arg>>

\* pipenv graph --json, twice, the second into pipenv_graph.json
JobGraph ==
    /\ pc = "graph"
    /\ hist' = Append(hist, "graph")
    /\ pc' = "map"
    /\ UNCHANGED <<variant, fs, runs, arg>>

JobGraphFails == JobCommandFails("graph")

\* map_pipenv_graph_to_sbom(output_path, pipenv_graph_path)
JobMap ==
    /\ pc = "map"
    /\ fs' = [fs EXCEPT ![JobFile] = MapPipenvGraphDoc(@, arg.graph)]
    /\ hist' = Append(hist, "mapped")
    /\ pc' = "teardown"
    /\ UNCHANGED <<variant, runs, arg>>

\* finally: pipenv --rm, any exception of it swallowed
JobTeardown ==
    /\ pc = "teardown"
    /\ \E ok \in BOOLEAN : hist' = Append(hist, IF ok THEN "removed" ELSE "remove failed")
    /\ pc' = "done"
    /\ UNCHANGED <<variant, fs, runs, arg>>

NextJob ==
    \/ JobInstall \/ JobInstallFails
    \/ JobScan \/ JobScanFails
    \/ JobFilter
    \/ JobGraph \/ JobGraphFails
    \/ JobMap
    \/ JobTeardown

SpecJob == InitJob /\ [][NextJob]_vars

\* the job ran its try block to the end
JobSucceeded ==
    /\ pc = "done"
    /\ "failed" \notin Range(hist)
    /\ "filtered" \in Range(hist)

\* C3: the document a successful create_python_sbom or create_nodejs_sbom job
\* of app_p.py leaves on disk has no relationship with an endpoint that is the
\* SPDXID of a lockfile pseudo-package the job removed from packages.
C3_JobLeavesNoDanglingRelationship ==
    JobSucceeded =>
        LET removed == {p.SPDXID : p \in {q \in Range(arg.scan.packages) :
                                             q.name # None /\ Contains(q.name, LockFileName(arg.lang))}}
        IN  \A r \in Range(fs[JobFile].relationships) :
                r.spdxElementId \notin removed /\ r.relatedSpdxElement \notin removed

-----------------------------------------------------------------------------
(* Specification SpecRun: one run of main(), its jobs executed one at a    *)
(* time: app.py, app_n.py, app_p.py, and main.py with one job submitted    *)

RunMaxRows == 2

\* the rows parse_csv returns; url is read by app_p.py only, for java rows
RunLanguages == {"python", "nodejs", "java", "ruby"}
RunRow(language, url) ==
    [idx |-> <<"1">>, language |-> language, name |-> NameA, version |-> <<"1">>, url |-> url]
RunRowsOf(v) ==
    {RunRow(l, None) : l \in RunLanguages}
        \cup (IF v = "app_p" THEN {RunRow("java", u) : u \in {<< >>, <<"u">>}} ELSE {})

\* the branch create_individual_sbom takes for a row
Supported(v, row) ==
    \/ row.language \in {"python", "nodejs"}
    \/ v = "app_p" /\ row.language = "java" /\ Truthy(row.url)

\* slip: the nodejs branch of the finally clause is left out
HasTeardownPythonOnly(v, row) == row.language = "python"

\* the job of the row has a finally clause that issues a teardown command
HasTeardown(v, row) ==
    IF v \in {"app", "main"} THEN row.language \in {"python", "nodejs"}
    ELSE row.language = "python"

\* f"{name}_{version}.json" of app.py and main.py
IndividualFile(name, version) == name \o <<"_">> \o version \o DOT_JSON

\* output_path of the job of a row
OutputPath(v, row) ==
    IF v \in {"app", "main"} THEN IndividualFile(row.name, row.version)
    ELSE PackageFile(v, row.language, row.idx, row.name, row.version)

\* what the scanner writes for the lockfile or the jar of a job
RunScanDoc(language) ==
    Doc(EnvA,
        <<Pkg("SPDXRef-1", <<"t","/">> \o (IF language = "nodejs" THEN PACKAGE_LOCK_JSON
                                          ELSE PIPFILE_LOCK)),
          Pkg("SPDXRef-2", NameA)>>,
        TRUE, <<Rel("SPDXRef-1", "SPDXRef-2", "CONTAINS")>>)

\* what pipenv graph --json prints in a job
RunGraph == <<PipenvNode(NameA, {})>>

\* os.listdir(OUTPUT_DIR) of the run
RunOrder ==
    <<IndividualFile(NameA, <<"1">>)>>
        \o [i \in 1..3 |-> PackageFile("app_p", <<"python", "nodejs", "java">>[i],
                                       <<"1">>, NameA, <<"1">>)]
        \o [i \in 1..2 |-> PackageFile("app_n", <<"python", "nodejs">>[i], <<"1">>, NameA, <<"1">>)]
        \o [i \in 1..3 |-> MergedFile(<<"python", "nodejs", "java">>[i])]

\* an entry of the run's trace: what happened for which row, and whether a
\* logger call recorded it
Ev(i, e, l) == [row |-> i, ev |-> e, logged |-> l]

\* the row of the job in progress
Row == arg.rows[pc.i]

InitRun ==
    /\ variant \in {"app", "main", "app_n", "app_p"}
    /\ \E rows \in SeqUpTo(RunRowsOf(variant), IF variant = "main" THEN 1 ELSE RunMaxRows) :
          /\ arg = [rows |-> rows]
          /\ pc = [i |-> 1, at |-> IF rows = << >> THEN "done" ELSE "row", exc |-> FALSE]
    /\ fs = << >>
    /\ runs = 0
    /\ hist = << >>

\* where control goes when the try block of a job is left
Finally == IF HasTeardown(variant, Row) THEN "teardown" ELSE "rmtree"

\* create_individual_sbom is entered for the next row: an unsupported language
\* is logged and skipped; app.py and main.py have made the temporary
\* directory by then, app_n.py and app_p.py have not
RunEnterJob ==
    /\ pc.at = "row"
    /\ IF Supported(variant, Row)
       THEN /\ hist' = Append(hist, Ev(pc.i, "mkdtemp", FALSE))
            /\ pc' = [pc EXCEPT !.at = "install"]
       ELSE IF variant \in {"app", "main"}
       THEN /\ hist' = hist \o <<Ev(pc.i, "mkdtemp", FALSE), Ev(pc.i, "skip", TRUE)>>
            /\ pc' = [pc EXCEPT !.at = "rmtree"]
       ELSE /\ hist' = Append(hist, Ev(pc.i, "skip", TRUE))
            /\ pc' = [pc EXCEPT !.at = "finish"]
    /\ UNCHANGED <<variant, fs, runs, arg>>

\* a command of the try block exits non-zero: CalledProcessError is caught
\* and logged by the job
RunCommandExits(at) ==
    /\ pc.at = at
    /\ hist' = Append(hist, Ev(pc.i, "failed", TRUE))
    /\ pc' = [pc EXCEPT !.at = Finally]
    /\ UNCHANGED <<variant, fs, runs, arg>>

\* a statement of the try block raises something else (the binary is not
\* there: FileNotFoundError; pipenv_graph.json does not parse:
\* JSONDecodeError); no except clause of the job matches
RunCommandRaises(at) ==
    /\ pc.at = at
    /\ hist' = Append(hist, Ev(pc.i, "raised", FALSE))
    /\ pc' = [pc EXCEPT !.at = Finally, !.exc = TRUE]
    /\ UNCHANGED <<variant, fs, runs, arg>>

\* pipenv --python, install, lock / npm init, npm install / curl
RunInstall ==
    /\ pc.at = "install"
    /\ hist' = Append(hist, Ev(pc.i, "install", FALSE))
    /\ pc' = [pc EXCEPT !.at = "scan"]
    /\ UNCHANGED <<variant, fs, runs, arg>>


\* trivy ... --output output_path, then the success is logged
RunScan ==
    /\ pc.at = "scan"
    /\ fs' = (OutputPath(variant, Row) :> RunScanDoc(Row.language)) @@ fs
    /\ hist' = Append(hist, Ev(pc.i, "saved", TRUE))
    /\ pc' = [pc EXCEPT !.at = IF variant = "app_p" /\ Row.language # "java"
                                THEN "filter" ELSE Finally]
    /\ UNCHANGED <<variant, runs, arg>>


\* app_p.py: the lockfile packages are taken out of output_path
RunFilter ==
    /\ pc.at = "filter"
    /\ fs' = [fs EXCEPT ![OutputPath(variant, Row)] = FilteredSbom(Row.language, @)]
    /\ hist' = Append(hist, Ev(pc.i, "filtered", FALSE))
    /\ pc' = [pc EXCEPT !.at = IF Row.language = "python" THEN "graph" ELSE Finally]
    /\ UNCHANGED <<variant, runs, arg>>

\* app_p.py: pipenv graph --json, twice, the second into pipenv_graph.json
RunGraphCommand ==
    /\ pc.at = "graph"
    /\ hist' = Append(hist, Ev(pc.i, "graph", FALSE))
    /\ pc' = [pc EXCEPT !.at = "map"]
    /\ UNCHANGED <<variant, fs, runs, arg>>


\* app_p.py: map_pipenv_graph_to_sbom(output_path, pipenv_graph_path)
RunMap ==
    /\ pc.at = "map"
    /\ fs' = [fs EXCEPT ![OutputPath(variant, Row)] = MapPipenvGraphDoc(@, RunGraph)]
    /\ hist' = Append(hist, Ev(pc.i, "mapped", FALSE))
    /\ pc' = [pc EXCEPT !.at = Finally]
    /\ UNCHANGED <<variant, runs, arg>>


\* finally: pipenv --rm / npm uninstall
RunTeardown ==
    /\ pc.at = "teardown"
    /\ hist' = Append(hist, Ev(pc.i, "teardown", FALSE))
    /\ pc' = [pc EXCEPT !.at = "rmtree"]
    /\ UNCHANGED <<variant, fs, runs, arg>>

\* finally: the teardown command raises; except Exception: pass
RunTeardownFails ==
    /\ pc.at = "teardown"
    /\ hist' = hist \o <<Ev(pc.i, "teardown", FALSE), Ev(pc.i, "teardown raised", FALSE)>>
    /\ pc' = [pc EXCEPT !.at = "rmtree"]
    /\ UNCHANGED <<variant, fs, runs, arg>>

\* the with block of TemporaryDirectory is left: the directory is removed.
\* An exception no except clause matched goes on from here: out of main() in
\* the sequential programs, into the future of the job in main.py, where the
\* sanitising call of the job is not reached
RunRmtree ==
    /\ pc.at = "rmtree"
    /\ IF pc.exc /\ variant # "main"
       THEN /\ hist' = hist \o <<Ev(pc.i, "rmtree", FALSE), Ev(pc.i, "abort", FALSE)>>
            /\ pc' = [pc EXCEPT !.at = "aborted"]
       ELSE /\ hist' = Append(hist, Ev(pc.i, "rmtree", FALSE))
            /\ pc' = [pc EXCEPT !.at = IF variant \in {"app", "main"} /\ ~pc.exc
                                        THEN "sanitize" ELSE "finish"]
    /\ UNCHANGED <<variant, fs, runs, arg>>

\* app.py, main.py: remove_pipfile_package(OUTPUT_DIR/{name}_{version}.json),
\* called for every row
RunSanitize ==
    /\ pc.at = "sanitize"
    /\ LET sbom_path == OutputPath(variant, Row)
       IN  IF sbom_path \notin DOMAIN fs
           THEN /\ hist' = Append(hist, Ev(pc.i, "not found", TRUE))
                /\ fs' = fs
           ELSE /\ hist' = Append(hist, Ev(pc.i, "sanitized", FALSE))
                /\ fs' = [fs EXCEPT ![sbom_path] = RemovePipfileDoc(variant, @)]
    /\ pc' = [pc EXCEPT !.at = "finish"]
    /\ UNCHANGED <<variant, runs, arg>>

\* what main() does after the loop over the rows
AfterLoop == IF variant \in {"app_n", "app_p"} THEN "merge_python" ELSE "done"

\* the sequential programs: the progress line i/total after the job of row i
RunReport ==
    /\ pc.at = "finish"
    /\ variant # "main"
    /\ runs' = runs + 1
    /\ hist' = Append(hist, Ev(pc.i, "report", FALSE))
    /\ pc' = IF pc.i < Len(arg.rows)
             THEN [i |-> pc.i + 1, at |-> "row", exc |-> FALSE]
             ELSE [pc EXCEPT !.at = AfterLoop]
    /\ UNCHANGED <<variant, fs, arg>>

\* main.py: the future of the job completes, with its result or its
\* exception; the worker takes the next submitted job
RunFutureDone ==
    /\ pc.at = "finish"
    /\ variant = "main"
    /\ hist' = Append(hist, Ev(pc.i, "completed", FALSE))
    /\ pc' = [i |-> pc.i + 1, at |-> IF pc.i < Len(arg.rows) THEN "row" ELSE "drain",
              exc |-> FALSE]
    /\ UNCHANGED <<variant, fs, runs, arg>>

\* main.py: as_completed yields one more completed future and the progress
\* line i/total is written; the with block is left after the last one
RunReportCompleted ==
    /\ variant = "main"
    /\ runs < pc.i - 1
    /\ runs' = runs + 1
    /\ hist' = Append(hist, Ev(runs + 1, "report", FALSE))
    /\ pc' = IF pc.at = "drain" /\ runs + 1 = Len(arg.rows)
             THEN [pc EXCEPT !.at = "done"] ELSE pc
    /\ UNCHANGED <<variant, fs, arg>>

\* merge_sbom_files / merge_nodejs_sbom_files / merge_java_sbom_files, called
\* one after the other at the end of main()
RunMerge(eco, at, next) ==
    /\ pc.at = at
    /\ fs' = (MergedFile(eco) :> MergedData(variant, eco, fs, RunOrder)) @@ fs
    /\ hist' = Append(hist, Ev(0, at, FALSE))
    /\ pc' = [pc EXCEPT !.at = next]
    /\ UNCHANGED <<variant, runs, arg>>

RunMergePython ==
    RunMerge("python", "merge_python", IF variant = "app_p" THEN "merge_nodejs" ELSE "done")
RunMergeNodejs == RunMerge("nodejs", "merge_nodejs", "merge_java")
RunMergeJava == RunMerge("java", "merge_java", "done")

NextRun ==
    \/ RunEnterJob
    \/ RunInstall \/ RunScan \/ RunFilter \/ RunGraphCommand \/ RunMap
    \/ \E at \in {"install", "scan", "graph"} : RunCommandExits(at)
    \/ \E at \in {"install", "scan", "graph", "map"} : RunCommandRaises(at)
    \/ RunTeardown \/ RunTeardownFails
    \/ RunRmtree
    \/ RunSanitize
    \/ RunReport \/ RunFutureDone \/ RunReportCompleted
    \/ RunMergePython \/ RunMergeNodejs \/ RunMergeJava

SpecRun == InitRun /\ [][NextRun]_vars

\* the entries of the trace that belong to row i
EventsOf(i) == {e \in Range(hist) : e.row = i}

\* the run is over: main() returned or an exception left it
RunOver == pc.at \in {"done", "aborted"}

\* the job of row i was started and reached its own outcome
JobRanToOutcome(i) == \E e \in EventsOf(i) : e.ev \in {"rmtree", "skip"}

\* C12: whatever way a job fails, the error stays inside the job: no exception
\* leaves main(), every row of the input has its job started and run to its
\* outcome, and the programs that merge still merge.
C12_FailureIsolated ==
    /\ pc.at # "aborted"
    /\ RunOver =>
          /\ \A i \in 1..Len(arg.rows) : JobRanToOutcome(i)
          /\ (variant \in {"app_n", "app_p"} /\ arg.rows # << >>) =>
                \E e \in Range(hist) : e.ev = "merge_python"

\* the jobs the teardown obligation is stated for: python and nodejs jobs of
\* app.py and main.py, python jobs of app_p.py
OwesTeardown(i) ==
    \/ variant \in {"app", "main"} /\ arg.rows[i].language \in {"python", "nodejs"}
    \/ variant = "app_p" /\ arg.rows[i].language = "python"

\* the positions of the trace where e happened for row i
Positions(i, e) == {k \in 1..Len(hist) : hist[k].row = i /\ hist[k].ev = e}

\* C13: once such a job has made its temporary directory, the teardown command
\* is issued on every path out of the job - success, a failing command, any
\* other exception - and before the temporary directory is removed.
C13_TeardownOnEveryPath ==
    \A i \in 1..Len(arg.rows) :
        OwesTeardown(i) =>
            /\ \A k \in Positions(i, "rmtree") :
                  /\ \E j \in Positions(i, "mkdtemp") : j < k
                  /\ \E j \in Positions(i, "teardown") : j < k
            /\ (RunOver /\ Positions(i, "mkdtemp") # {}) => Positions(i, "rmtree") # {}

\* a job left by an exception that no except clause matched, and one left by
\* a failing command, both torn down before their directory went
C13_Witness ==
    /\ \E i \in 1..Len(arg.rows) :
          /\ OwesTeardown(i)
          /\ Positions(i, "raised") # {}
          /\ Positions(i, "teardown") # {} /\ Positions(i, "rmtree") # {}
    /\ \E i \in 1..Len(arg.rows) :
          /\ OwesTeardown(i)
          /\ Positions(i, "failed") # {}
          /\ Positions(i, "teardown") # {} /\ Positions(i, "rmtree") # {}

\* C14: a teardown command that fails is logged, and it lets no exception out
\* of a job whose try block had ended without one.
C14_TeardownFailureLogged ==
    \A i \in 1..Len(arg.rows) :
        \A k \in Positions(i, "teardown raised") :
            /\ hist[k].logged
            /\ Positions(i, "raised") = {} => Positions(i, "abort") = {}

\* the merge calls of a run
MergeEvents == {"merge_python", "merge_nodejs", "merge_java"}

\* the merge functions the program calls
MergesOf(v) ==
    CASE v = "app_p" -> MergeEvents
      [] v = "app_n" -> {"merge_python"}
      [] OTHER -> {}

\* C16: a merge function reads the output directory only when every job of
\* the run has finished, and every merged file the program produces is
\* written exactly once in a run that has jobs.
C16_MergeAfterAllJobsOnce ==
    /\ \A k \in 1..Len(hist) :
          hist[k].ev \in MergeEvents =>
              \A i \in 1..Len(arg.rows) :
                  \E j \in 1..(k - 1) : hist[j].row = i /\ hist[j].ev \in {"rmtree", "skip"}
    /\ (RunOver /\ arg.rows # << >>) =>
          \A m \in MergesOf(variant) : Cardinality(Positions(0, m)) = 1

\* the positions of the progress lines in the trace
Reports == {k \in 1..Len(hist) : hist[k].ev = "report"}

\* the jobs that had reached their outcome before position k
CompletedBefore(k) ==
    {i \in 1..Len(arg.rows) :
        \E j \in 1..(k - 1) : hist[j].row = i /\ hist[j].ev \in {"rmtree", "skip"}}

\* C19: the progress lines report 1, 2, ..., total in that order, the line
\* with value n is written when n jobs have completed, and the last value
\* reported is the number of rows, also when jobs failed.
C19_CompletedCountMonotone ==
    /\ \A k \in Reports :
          /\ hist[k].row = Cardinality({j \in Reports : j < k}) + 1
          /\ Cardinality(CompletedBefore(k)) >= hist[k].row
    /\ RunOver => runs = Len(arg.rows)

-----------------------------------------------------------------------------
(* Specification SpecRead: a merge function over an output directory in    *)
(* which a per-package file may not be readable as JSON                    *)

\* the content of a file that open() or json.load() rejects
Corrupt == [unreadable |-> TRUE]

\* the files of a directory that json.load accepts
Readable(dir) == [f \in {g \in DOMAIN dir : dir[g] # Corrupt} |-> dir[f]]

\* what a per-package file of the directory may hold
ReadContents(eco, first) ==
    {Corrupt} \cup {Doc(IF first THEN EnvA ELSE EnvB, ps, TRUE, << >>) :
                       ps \in SeqUpTo(MergePkgs(eco, first), 1)}

InitRead ==
    /\ variant \in {"app_p", "app_n"}
    /\ \E eco \in (IF variant = "app_n" THEN {"python"} ELSE {"python", "nodejs", "java"}) :
         /\ \E o \in DirOrders(variant, eco) : arg = [eco |-> eco, order |-> o]
         /\ \E A \in SUBSET {FileA(variant, eco)}, B \in SUBSET {FileB(variant, eco)} :
              \E a \in ReadContents(eco, TRUE), b \in ReadContents(eco, FALSE) :
                 fs = [f \in A |-> a] @@ [f \in B |-> b] @@ (OtherFile(variant, eco) :> OtherDoc)
    /\ pc = "merge"
    /\ runs = 0
    /\ hist = << >>

\* merge_sbom_files / merge_nodejs_sbom_files / merge_java_sbom_files: the
\* first loop opens and parses every matching file; an exception of open() or
\* json.load() is not handled and leaves the function before anything is
\* logged or dumped
MergeReading ==
    /\ pc = "merge"
    /\ LET files == MatchingFiles(variant, arg.eco, fs, arg.order)
       IN  IF \E f \in Range(files) : fs[f] = Corrupt
           THEN /\ pc' = "raised"
                /\ fs' = fs
           ELSE /\ pc' = "merged"
                /\ fs' = (MergedFile(arg.eco) :> MergedData(variant, arg.eco, fs, arg.order)) @@ fs
    /\ runs' = runs + 1
    /\ hist' = Append(hist, fs)
    /\ UNCHANGED <<variant, arg>>

NextRead == MergeReading

SpecRead == InitRead /\ [][NextRead]_vars

\* C15: when a matching file cannot be read or parsed, the merge function
\* still returns and writes the merged document built from the matching files
\* that can be read.
C15_MergeSkipsUnreadable ==
    (runs = 1 /\ \E f \in DOMAIN hist[1] : hist[1][f] = Corrupt /\ MatchesFile(variant, arg.eco, f)) =>
        /\ pc = "merged"
        /\ MergedFile(arg.eco) \in DOMAIN fs
        /\ fs[MergedFile(arg.eco)] = MergedData(variant, arg.eco, Readable(hist[1]), arg.order)

-----------------------------------------------------------------------------
(* Specification SpecPool: main() of main.py, its jobs run by the worker   *)
(* threads of a ThreadPoolExecutor                                         *)

PoolMaxJobs == 2

\* os.cpu_count(): 0 stands for None
CpuCounts == {0, 1, 2}

DefaultWorkers == 4

\* max_workers = os.cpu_count() or 4
MaxWorkers == IF arg.cpu = 0 THEN DefaultWorkers ELSE arg.cpu

\* the rows of the CSV: language, name, version
PoolRow(language, name) == [language |-> language, name |-> name, version |-> <<"1">>]
PoolRows ==
    {PoolRow("python", NameA), PoolRow("nodejs", NameA), PoolRow("ruby", NameA),
     PoolRow("python", NameB)}

Jobs == 1..Len(arg.rows)

\* the jobs a worker thread is running
Running == {i \in Jobs : pc.job[i].at \in {"installed", "created", "read"}}

\* the jobs whose future is done
Finished == {i \in Jobs : pc.job[i].at = "finished"}

\* output_path of the job of row i, also the path its sanitising call is given
PoolPath(i) == IndividualFile(arg.rows[i].name, arg.rows[i].version)

\* the local variable data of remove_pipfile_package before json.load
NoData == Doc(EnvNone, << >>, FALSE, << >>)

\* the job at position at, holding the document data
JobAt(at, data) == [at |-> at, data |-> data]

InitPool ==
    /\ variant = "main"
    /\ \E n \in 1..PoolMaxJobs : \E rows \in [1..n -> PoolRows] : \E cpu \in CpuCounts :
          /\ arg = [rows |-> rows, cpu |-> cpu]
          /\ pc = [main |-> "submit", submitted |-> 0,
                   job |-> [i \in 1..n |-> JobAt("unsubmitted", NoData)]]
          /\ hist = [i \in 1..n |-> FALSE]
    /\ fs = << >>
    /\ runs = 0

\* executor.submit(...) for the next row
PoolSubmit ==
    /\ pc.main = "submit"
    /\ LET i == pc.submitted + 1
       IN  pc' = [pc EXCEPT !.submitted = i,
                            !.job[i] = JobAt("queued", NoData),
                            !.main = IF i = Len(arg.rows) THEN "wait" ELSE "submit"]
    /\ UNCHANGED <<variant, fs, runs, hist, arg>>

\* slip: a thread is started for every submitted job
WorkerFreeAlways == TRUE

\* a worker thread exists or may be started to take a job from the queue
WorkerFree == Cardinality(Running) < MaxWorkers

\* a worker takes the oldest queued job: create_individual_sbom is entered and
\* the install commands run.  An unsupported language is logged and the
\* function returns; a command that exits non-zero is logged and the function
\* returns through finally; any other exception ends the job
PoolStart(i) ==
    /\ pc.job[i].at = "queued"
    /\ \A j \in 1..(i - 1) : pc.job[j].at # "queued"
    /\ WorkerFree
    /\ \E o \in {"ok", "exit", "raise"} :
          pc' = [pc EXCEPT !.job[i].at =
                    IF arg.rows[i].language \notin {"python", "nodejs"} THEN "created"
                    ELSE CASE o = "ok" -> "installed"
                           [] o = "exit" -> "created"
                           [] o = "raise" -> "finished"]
    /\ UNCHANGED <<variant, fs, runs, hist, arg>>

\* the scanner writes output_path, then the finally clause tears down
PoolScan(i) ==
    /\ pc.job[i].at = "installed"
    /\ \E o \in {"ok", "exit", "raise"} :
          /\ fs' = IF o = "ok" THEN (PoolPath(i) :> RunScanDoc(arg.rows[i].language)) @@ fs
                   ELSE fs
          /\ pc' = [pc EXCEPT !.job[i].at = IF o = "raise" THEN "finished" ELSE "created"]
    /\ hist' = [hist EXCEPT ![i] = @ \/ fs' # fs]
    /\ UNCHANGED <<variant, runs, arg>>

\* remove_pipfile_package, first half: the existence test and json.load
PoolSanitizeRead(i) ==
    /\ pc.job[i].at = "created"
    /\ pc' = [pc EXCEPT !.job[i] = IF PoolPath(i) \in DOMAIN fs
                                   THEN JobAt("read", fs[PoolPath(i)])
                                   ELSE JobAt("finished", NoData)]
    /\ UNCHANGED <<variant, fs, runs, hist, arg>>

\* remove_pipfile_package, second half: the filtered document is dumped
PoolSanitizeWrite(i) ==
    /\ pc.job[i].at = "read"
    /\ fs' = [fs EXCEPT ![PoolPath(i)] = RemovePipfileDoc(variant, pc.job[i].data)]
    /\ pc' = [pc EXCEPT !.job[i] = JobAt("finished", NoData)]
    /\ hist' = [hist EXCEPT ![i] = @ \/ fs' # fs]
    /\ UNCHANGED <<variant, runs, arg>>

\* as_completed yields one more finished future: the progress line i/total
PoolReport ==
    /\ pc.main = "wait"
    /\ runs < Cardinality(Finished)
    /\ runs' = runs + 1
    /\ pc' = [pc EXCEPT !.main = IF runs + 1 = Len(arg.rows) THEN "done" ELSE "wait"]
    /\ UNCHANGED <<variant, fs, hist, arg>>

NextPool ==
    \/ PoolSubmit
    \/ \E i \in Jobs : PoolStart(i)
    \/ \E i \in Jobs : PoolScan(i)
    \/ \E i \in Jobs : PoolSanitizeRead(i)
    \/ \E i \in Jobs : PoolSanitizeWrite(i)
    \/ PoolReport

SpecPool == InitPool /\ [][NextPool]_vars

\* threads are scheduled and the commands of a job end
SpecPoolFair == SpecPool /\ WF_vars(NextPool)

\* C17: no job writes an output file while another job is between reading
\* that file and writing it back: the document a job has loaded in
\* remove_pipfile_package is still the content of the file when the job dumps
\* its filtered copy.
C17_NoWriteConflict ==
    \A i \in Jobs :
        pc.job[i].at = "read" => fs[PoolPath(i)] = pc.job[i].data

\* job i waits in the queue of the executor
Queued(i) == i \in Jobs /\ pc.job[i].at = "queued"

\* job i has been taken by a worker
Started(i) == i \in Jobs /\ pc.job[i].at \notin {"unsubmitted", "queued"}

C20_UnsupportedIsNoOp ==
    \A i \in Jobs :
        arg.rows[i].language \notin {"python", "nodejs"} => ~hist[i]

====
